---- MODULE Spec2Model ----
(***************************************************************************)
(* A model of cw-coins (src/src/lib.rs): the Coins collection, a           *)
(* BTreeMap<String, Uint128>, with its construction paths (list of Coin,   *)
(* compact string, structured document) and its output paths (compact      *)
(* string, list of Coin, structured document).                             *)
(*                                                                         *)
(* A Rust String is modelled as what it is: a sequence of bytes holding    *)
(* valid UTF-8.  A Uint128 is modelled as its canonical decimal digit      *)
(* sequence (no leading zeros, <<0>> for zero), which keeps the full       *)
(* 128-bit range without machine integers.                                 *)
(***************************************************************************)
EXTENDS Integers, Sequences, FiniteSets, TLC

VARIABLES input, pc, res, out, back

vars == <<input, pc, res, out, back>>

(***************************************************************************)
(* Bounds of the model.                                                    *)
(***************************************************************************)
MaxStrLen == 3
MaxTokens == 3
MaxVecLen == 3
MaxDocLen == 3

(***************************************************************************)
(* Generic helpers.                                                        *)
(***************************************************************************)
Min(S) == CHOOSE x \in S : \A y \in S : x <= y

SeqsUpTo(S, n) == UNION {[1..k -> S] : k \in 0..n}

RECURSIVE Flatten(_)
Flatten(ss) == IF ss = <<>> THEN <<>> ELSE Head(ss) \o Flatten(Tail(ss))

Perms(n) == {p \in [1..n -> 1..n] : \A i, j \in 1..n : p[i] = p[j] => i = j}

Permuted(q, p) == [i \in 1..Len(q) |-> q[p[i]]]

(***************************************************************************)
(* UTF-8: chars (code points) and the bytes of a str.                      *)
(***************************************************************************)
Utf8Encode(c) ==
    IF c < 128 THEN <<c>>
    ELSE IF c < 2048 THEN <<192 + (c \div 64), 128 + (c % 64)>>
    ELSE IF c < 65536
         THEN <<224 + (c \div 4096), 128 + ((c \div 64) % 64), 128 + (c % 64)>>
         ELSE <<240 + (c \div 262144), 128 + ((c \div 4096) % 64),
                128 + ((c \div 64) % 64), 128 + (c % 64)>>

Str(cs) == Flatten([i \in 1..Len(cs) |-> Utf8Encode(cs[i])])

Utf8Width(b) == IF b < 128 THEN 1 ELSE IF b < 224 THEN 2 ELSE IF b < 240 THEN 3 ELSE 4

Utf8Decode(bs) ==
    IF Len(bs) = 1 THEN bs[1]
    ELSE IF Len(bs) = 2 THEN (bs[1] - 192) * 64 + (bs[2] - 128)
    ELSE IF Len(bs) = 3
         THEN (bs[1] - 224) * 4096 + (bs[2] - 128) * 64 + (bs[3] - 128)
         ELSE (bs[1] - 240) * 262144 + (bs[2] - 128) * 4096
              + (bs[3] - 128) * 64 + (bs[4] - 128)

\* str::chars: the code points of s, in order
RECURSIVE chars(_)
chars(s) ==
    IF s = <<>> THEN <<>>
    ELSE LET w == Utf8Width(Head(s))
         IN  <<Utf8Decode(SubSeq(s, 1, w))>> \o chars(SubSeq(s, w + 1, Len(s)))

\* str::is_char_boundary, for a byte index i in 0..Len(s)
is_char_boundary(s, i) ==
    \/ i = 0
    \/ i = Len(s)
    \/ i < Len(s) /\ ~(s[i + 1] \in 128..191)

\* char::is_ascii_digit / char::is_alphabetic on the code points used here
\* (ASCII and Latin-1 letters; every other code point of the model's
\* alphabet is not alphabetic)
is_digit(c) == c \in 48..57

is_alphabetic(c) ==
    c \in (65..90) \cup (97..122) \cup {170, 181, 186}
          \cup (192..214) \cup (216..246) \cup (248..255)

\* Ord for String: byte-lexicographic
RECURSIVE StrLess(_, _)
StrLess(a, b) ==
    IF b = <<>> THEN FALSE
    ELSE IF a = <<>> THEN TRUE
    ELSE IF Head(a) # Head(b) THEN Head(a) < Head(b)
    ELSE StrLess(Tail(a), Tail(b))

(***************************************************************************)
(* Results and errors.                                                     *)
(***************************************************************************)
NoErr == [kind |-> "none", target |-> "", msg |-> "", text |-> <<>>]

\* StdError::generic_err(format!("Parsing u128: {}", e))
generic_err(msg) == [kind |-> "GenericErr", target |-> "", msg |-> msg, text |-> <<>>]

\* StdError::parse_err(target, msg) where msg may embed a piece of the input
parse_err(target, msg, text) ==
    [kind |-> "ParseErr", target |-> target, msg |-> msg, text |-> text]

\* de::Error::custom(format!("failed to parse into Coins! <msg>: {}", text))
custom(msg, text) == [kind |-> "Custom", target |-> "", msg |-> msg, text |-> text]

Ok(v) == [tag |-> "Ok", val |-> v, err |-> NoErr]
Err(e) == [tag |-> "Err", val |-> <<>>, err |-> e]
Panic == [tag |-> "Panic", val |-> <<>>, err |-> NoErr]
NoRes == [tag |-> "none", val |-> <<>>, err |-> NoErr]

(***************************************************************************)
(* cosmwasm_std::Uint128 as used by lib.rs.  A value is its canonical      *)
(* decimal digit sequence.                                                 *)
(***************************************************************************)
\* u128::MAX = 2^128 - 1 = 340282366920938463463374607431768211455
U128Max ==
    <<3,4,0,2,8,2,3,6,6,9,2,0,9,3,8,4,6,3,4,6,
      3,3,7,4,6,0,7,4,3,1,7,6,8,2,1,1,4,5,5>>

RECURSIVE DigitsLess(_, _)
DigitsLess(a, b) ==
    IF a = <<>> THEN FALSE
    ELSE IF Head(a) # Head(b) THEN Head(a) < Head(b)
    ELSE DigitsLess(Tail(a), Tail(b))

\* v <= u128::MAX, for a canonical digit sequence v
FitsU128(v) ==
    \/ Len(v) < Len(U128Max)
    \/ Len(v) = Len(U128Max) /\ ~DigitsLess(U128Max, v)

\* acc * 10 + d on canonical digit sequences
MulAdd(acc, d) == IF acc = <<0>> THEN <<d>> ELSE Append(acc, d)

\* the digit loop of u128::from_str: checked_mul(10) then checked_add(d)
RECURSIVE ParseDigits(_, _)
ParseDigits(bs, acc) ==
    IF bs = <<>> THEN Ok(acc)
    ELSE IF ~is_digit(Head(bs))
         THEN Err(generic_err("Parsing u128: invalid digit found in string"))
    ELSE LET next == MulAdd(acc, Head(bs) - 48)
         IN  IF ~FitsU128(next)
             THEN Err(generic_err("Parsing u128: number too large to fit in target type"))
             ELSE ParseDigits(Tail(bs), next)

\* Uint128::from_str(s): s.parse::<u128>() with the error wrapped in
\* StdError::generic_err.  A single leading '+' is accepted by the integer
\* parser; "+" alone is an invalid digit.
Uint128_from_str(s) ==
    IF s = <<>>
    THEN Err(generic_err("Parsing u128: cannot parse integer from empty string"))
    ELSE IF s = <<43>>
         THEN Err(generic_err("Parsing u128: invalid digit found in string"))
    ELSE IF Head(s) = 43 THEN ParseDigits(Tail(s), <<0>>)
    ELSE ParseDigits(s, <<0>>)

\* Display / Serialize for Uint128: the decimal string of the value
Uint128_to_string(v) == [i \in 1..Len(v) |-> 48 + v[i]]

(***************************************************************************)
(* BTreeMap<String, Uint128>: the entries <<key, value>> in ascending key  *)
(* order, one entry per key.                                               *)
(***************************************************************************)
\* insert with the key comparison the wrong way round
RECURSIVE insert_descending(_, _, _)
insert_descending(map, k, v) ==
    IF map = <<>> THEN <<<<k, v>>>>
    ELSE IF Head(map)[1] = k THEN <<<<k, v>>>> \o Tail(map)
    ELSE IF StrLess(Head(map)[1], k) THEN <<<<k, v>>>> \o map
    ELSE <<Head(map)>> \o insert_descending(Tail(map), k, v)

\* insert that keeps insertion order (a Vec-backed map): a new key goes last
RECURSIVE insert_unsorted(_, _, _)
insert_unsorted(map, k, v) ==
    IF map = <<>> THEN <<<<k, v>>>>
    ELSE IF Head(map)[1] = k THEN <<<<k, v>>>> \o Tail(map)
    ELSE <<Head(map)>> \o insert_unsorted(Tail(map), k, v)

\* BTreeMap::insert: a new key goes to its place in key order, an existing
\* key has its value overwritten
RECURSIVE insert(_, _, _)
insert(map, k, v) ==
    IF map = <<>> THEN <<<<k, v>>>>
    ELSE IF Head(map)[1] = k THEN <<<<k, v>>>> \o Tail(map)
    ELSE IF StrLess(k, Head(map)[1]) THEN <<<<k, v>>>> \o map
    ELSE <<Head(map)>> \o insert(Tail(map), k, v)

\* Iterator::collect::<BTreeMap<_, _>>() over a sequence of (key, value)
RECURSIVE collect_map(_, _)
collect_map(pairs, map) ==
    IF pairs = <<>> THEN map
    ELSE collect_map(Tail(pairs), insert(map, Head(pairs)[1], Head(pairs)[2]))

(***************************************************************************)
(* helpers::parse_coin_str                                                 *)
(***************************************************************************)
Comma == 44

\* &s[..i] and &s[i..] on a char boundary i
SliceTo(s, i) == SubSeq(s, 1, i)
SliceFrom(s, i) == SubSeq(s, i + 1, Len(s))

parse_coin_str(s) ==
    LET cs == chars(s)
        alpha == {j \in 1..Len(cs) : is_alphabetic(cs[j])}
    IN  IF alpha = {}
        THEN Err(parse_err("cosmwasm_std::coins::Coin", "Invalid coin string", s))
        ELSE LET i == Min(alpha) - 1   \* index given by chars().enumerate()
             IN  IF ~is_char_boundary(s, i) THEN Panic
                 ELSE LET amount == Uint128_from_str(SliceTo(s, i))
                      IN  IF amount.tag = "Err" THEN amount
                          ELSE Ok(<<SliceFrom(s, i), amount.val>>)

(***************************************************************************)
(* The construction paths of Coins.                                        *)
(***************************************************************************)
\* Coins::new
new == <<>>

\* Coins::len, Coins::is_empty
len(coins) == Len(coins)
is_empty(coins) == Len(coins) = 0

\* try_from with the length test written as "map.len() > vec_len"
try_from_vec_gt(vec) ==
    LET vec_len == Len(vec)
        map == collect_map([i \in 1..Len(vec) |-> <<vec[i].denom, vec[i].amount>>], <<>>)
    IN  IF Len(map) > vec_len
        THEN Err(parse_err("cw_coins::Coins", "duplicate denoms", <<>>))
        ELSE Ok(map)

\* impl TryFrom<Vec<Coin>> for Coins
try_from_vec(vec) ==
    LET vec_len == Len(vec)
        map == collect_map([i \in 1..Len(vec) |-> <<vec[i].denom, vec[i].amount>>], <<>>)
    IN  IF Len(map) # vec_len
        THEN Err(parse_err("cw_coins::Coins", "duplicate denoms", <<>>))
        ELSE Ok(map)

\* impl TryFrom<&[Coin]> for Coins: slice.to_vec().try_into()
try_from_slice(slice) == try_from_vec([i \in 1..Len(slice) |-> slice[i]])

\* str::split(",")
RECURSIVE split(_)
split(s) ==
    LET commas == {j \in 1..Len(s) : s[j] = Comma}
    IN  IF commas = {} THEN <<s>>
        ELSE LET j == Min(commas)
             IN  <<SubSeq(s, 1, j - 1)>> \o split(SubSeq(s, j + 1, Len(s)))

\* collect::<StdResult<BTreeMap<_, _>>>(): parses the tokens in order, stops at
\* the first one that does not give Ok, inserts the others into the map
RECURSIVE collect_result(_, _)
collect_result(tokens, map) ==
    IF tokens = <<>> THEN Ok(map)
    ELSE LET r == parse_coin_str(Head(tokens))
         IN  IF r.tag # "Ok" THEN r
             ELSE collect_result(Tail(tokens), insert(map, r.val[1], r.val[2]))

\* impl FromStr for Coins
from_str(s) == collect_result(split(s), <<>>)

\* visit_map that parses the amount before it looks the denom up
RECURSIVE visit_map_loop_amount_first(_, _, _)
visit_map_loop_amount_first(entries, seen_denoms, coins) ==
    IF entries = <<>> THEN Ok(coins)
    ELSE LET denom == Head(entries)[1]
             amount_str == Head(entries)[2]
             amount == Uint128_from_str(amount_str)
         IN  IF amount.tag = "Err"
             THEN Err(custom("invalid amount", amount_str))
             ELSE IF denom \in seen_denoms
                  THEN Err(custom("duplicate denom", denom))
                  ELSE visit_map_loop_amount_first(Tail(entries), seen_denoms \cup {denom},
                                                   insert(coins, denom, amount.val))

\* visit_map that records the denom as seen before it looks it up
RECURSIVE visit_map_loop_seen_first(_, _, _)
visit_map_loop_seen_first(entries, seen_denoms, coins) ==
    IF entries = <<>> THEN Ok(coins)
    ELSE LET denom == Head(entries)[1]
             amount_str == Head(entries)[2]
             seen == seen_denoms \cup {denom}
         IN  IF denom \in seen
             THEN Err(custom("duplicate denom", denom))
             ELSE LET amount == Uint128_from_str(amount_str)
                  IN  IF amount.tag = "Err"
                      THEN Err(custom("invalid amount", amount_str))
                      ELSE visit_map_loop_seen_first(Tail(entries), seen,
                                                     insert(coins, denom, amount.val))

\* Visitor::visit_map: the while-let loop over the entries of the document,
\* each entry a <<denom, amount_str>> pair of strings
RECURSIVE visit_map_loop(_, _, _)
visit_map_loop(entries, seen_denoms, coins) ==
    IF entries = <<>> THEN Ok(coins)
    ELSE LET denom == Head(entries)[1]
             amount_str == Head(entries)[2]
         IN  IF denom \in seen_denoms
             THEN Err(custom("duplicate denom", denom))
             ELSE LET amount == Uint128_from_str(amount_str)
                  IN  IF amount.tag = "Err"
                      THEN Err(custom("invalid amount", amount_str))
                      ELSE visit_map_loop(Tail(entries), seen_denoms \cup {denom},
                                          insert(coins, denom, amount.val))

visit_map(entries) == visit_map_loop(entries, {}, <<>>)

\* impl Deserialize for Coins
deserialize(doc) == visit_map(doc)

(***************************************************************************)
(* The output paths of Coins.                                              *)
(***************************************************************************)
\* [String]::join(",")
RECURSIVE join(_)
join(parts) ==
    IF parts = <<>> THEN <<>>
    ELSE IF Len(parts) = 1 THEN parts[1]
    ELSE parts[1] \o <<Comma>> \o join(Tail(parts))

\* Display with the two format arguments swapped: "{denom}{amount}"
fmt_swapped(coins) ==
    join([i \in 1..Len(coins) |-> coins[i][1] \o Uint128_to_string(coins[i][2])])

\* impl Display for Coins
fmt(coins) ==
    join([i \in 1..Len(coins) |-> Uint128_to_string(coins[i][2]) \o coins[i][1]])

\* Coins::to_vec, Coins::into_vec
to_vec(coins) == [i \in 1..Len(coins) |-> [denom |-> coins[i][1], amount |-> coins[i][2]]]

into_vec(coins) == [i \in 1..Len(coins) |-> [denom |-> coins[i][1], amount |-> coins[i][2]]]

\* derive(Serialize): the map's entries in iteration order, each amount as
\* its decimal string
serialize(coins) ==
    [i \in 1..Len(coins) |-> <<coins[i][1], Uint128_to_string(coins[i][2])>>]

(***************************************************************************)
(* The inputs a caller can hand to the library.                            *)
(***************************************************************************)
\* code points the generated strings are made of:
\* '0' '1' '+' ',' '/' 'a' 'b' and the three-byte, non-alphabetic U+20AC
Alphabet == {48, 49, 43, 44, 47, 97, 98, 8364}

\* every string of at most MaxStrLen chars over Alphabet
ShortStrs == {Str(cs) : cs \in SeqsUpTo(Alphabet, MaxStrLen)}

\* 2^128, the first amount that does not fit
U128Over ==
    <<3,4,0,2,8,2,3,6,6,9,2,0,9,3,8,4,6,3,4,6,
      3,3,7,4,6,0,7,4,3,1,7,6,8,2,1,1,4,5,6>>

\* tokens of the compact string format, well-formed and malformed:
\* "1a" "0a" "12ab" "1b/1" "1" U+00E9, "", "1" U+20AC "a",
\* u128::MAX "a", 2^128 "a"
TokenPool ==
    { Str(<<49, 97>>), Str(<<48, 97>>), Str(<<49, 50, 97, 98>>),
      Str(<<49, 98, 47, 49>>), Str(<<49, 233>>), Str(<<>>), Str(<<49, 8364, 97>>),
      Uint128_to_string(U128Max) \o Str(<<97>>),
      Uint128_to_string(U128Over) \o Str(<<97>>) }

JoinedStrs == {join(ts) : ts \in SeqsUpTo(TokenPool, MaxTokens) \ {<<>>}}

StrInputs == ShortStrs \cup JoinedStrs

\* denominations of the Coin values a caller builds: "a", U+00E9 "b",
\* "1a", "a,1b"
VecDenoms ==
    { Str(<<97>>), Str(<<233, 98>>), Str(<<49, 97>>), Str(<<97, 44, 49, 98>>) }

VecAmounts == {<<0>>, <<1, 2>>}

Coin == [denom : VecDenoms, amount : VecAmounts]

VecInputs ==
    SeqsUpTo(Coin, MaxVecLen)
        \cup {<<[denom |-> Str(<<97>>), amount |-> U128Max]>>}

\* keys and amount strings of the documents: "a" "/a" and
\* "12" "01" "x"; and single entries with u128::MAX, 2^128, "+1", ""
DocKeys == {Str(<<97>>), Str(<<47, 97>>)}

DocAmounts == {Str(<<49, 50>>), Str(<<48, 49>>), Str(<<120>>)}

DocInputs ==
    SeqsUpTo(DocKeys \X DocAmounts, MaxDocLen)
        \cup { <<<<Str(<<97>>), a>>>> :
                 a \in { Uint128_to_string(U128Max), Uint128_to_string(U128Over),
                         Str(<<43, 49>>), Str(<<>>) } }

Input(kind, s, vec, doc) == [kind |-> kind, s |-> s, vec |-> vec, doc |-> doc]

NoOut == [op |-> "none", s |-> <<>>, vec |-> <<>>, doc |-> <<>>]

(***************************************************************************)
(* The state machine: a caller holds one input, applies one construction   *)
(* path to it (res), then one output path to the collection it got (out),  *)
(* then feeds that output back into the matching construction path (back). *)
(***************************************************************************)
Init ==
    /\ input \in {Input("str", s, <<>>, <<>>) : s \in StrInputs}
             \cup {Input("vec", <<>>, v, <<>>) : v \in VecInputs}
             \cup {Input("doc", <<>>, <<>>, d) : d \in DocInputs}
             \cup {Input("unit", <<>>, <<>>, <<>>)}
    /\ pc = "start"
    /\ res = NoRes
    /\ out = NoOut
    /\ back = NoRes

Constructed == pc \in {"new", "try_from_vec", "try_from_slice", "from_str", "deserialize"}

New ==
    /\ pc = "start" /\ input.kind = "unit"
    /\ res' = Ok(new)
    /\ pc' = "new"
    /\ UNCHANGED <<input, out, back>>

TryFromVec ==
    /\ pc = "start" /\ input.kind = "vec"
    /\ res' = try_from_vec(input.vec)
    /\ pc' = "try_from_vec"
    /\ UNCHANGED <<input, out, back>>

TryFromSlice ==
    /\ pc = "start" /\ input.kind = "vec"
    /\ res' = try_from_slice(input.vec)
    /\ pc' = "try_from_slice"
    /\ UNCHANGED <<input, out, back>>

ParseCoinStr ==
    /\ pc = "start" /\ input.kind = "str"
    /\ res' = parse_coin_str(input.s)
    /\ pc' = "parse_coin_str"
    /\ UNCHANGED <<input, out, back>>

FromStr ==
    /\ pc = "start" /\ input.kind = "str"
    /\ res' = from_str(input.s)
    /\ pc' = "from_str"
    /\ UNCHANGED <<input, out, back>>

Deserialize ==
    /\ pc = "start" /\ input.kind = "doc"
    /\ res' = deserialize(input.doc)
    /\ pc' = "deserialize"
    /\ UNCHANGED <<input, out, back>>

Display ==
    /\ Constructed /\ res.tag = "Ok" /\ out.op = "none"
    /\ out' = [NoOut EXCEPT !.op = "fmt", !.s = fmt(res.val)]
    /\ UNCHANGED <<input, pc, res, back>>

ToVec ==
    /\ Constructed /\ res.tag = "Ok" /\ out.op = "none"
    /\ out' = [NoOut EXCEPT !.op = "to_vec", !.vec = to_vec(res.val)]
    /\ UNCHANGED <<input, pc, res, back>>

IntoVec ==
    /\ Constructed /\ res.tag = "Ok" /\ out.op = "none"
    /\ out' = [NoOut EXCEPT !.op = "into_vec", !.vec = into_vec(res.val)]
    /\ UNCHANGED <<input, pc, res, back>>

Serialize ==
    /\ Constructed /\ res.tag = "Ok" /\ out.op = "none"
    /\ out' = [NoOut EXCEPT !.op = "serialize", !.doc = serialize(res.val)]
    /\ UNCHANGED <<input, pc, res, back>>

\* Coins::from_str(&coins.to_string())
ParseRendered ==
    /\ out.op = "fmt" /\ back = NoRes
    /\ back' = from_str(out.s)
    /\ UNCHANGED <<input, pc, res, out>>

\* from_str::<Coins>(&to_string(&coins))
DecodeEncoded ==
    /\ out.op = "serialize" /\ back = NoRes
    /\ back' = deserialize(out.doc)
    /\ UNCHANGED <<input, pc, res, out>>

\* Coins::try_from(coins.to_vec())
RebuildFromVec ==
    /\ out.op \in {"to_vec", "into_vec"} /\ back = NoRes
    /\ back' = try_from_vec(out.vec)
    /\ UNCHANGED <<input, pc, res, out>>

Next ==
    \/ New
    \/ TryFromVec
    \/ TryFromSlice
    \/ ParseCoinStr
    \/ FromStr
    \/ Deserialize
    \/ Display
    \/ ToVec
    \/ IntoVec
    \/ Serialize
    \/ ParseRendered
    \/ DecodeEncoded
    \/ RebuildFromVec

Spec == Init /\ [][Next]_vars

TypeOK ==
    /\ pc \in {"start", "new", "try_from_vec", "try_from_slice", "from_str",
               "deserialize", "parse_coin_str"}
    /\ res.tag \in {"none", "Ok", "Err", "Panic"}
    /\ back.tag \in {"none", "Ok", "Err", "Panic"}

(***************************************************************************)
(* Vocabulary of the properties.                                           *)
(***************************************************************************)
\* the denominations of a sequence of entries are pairwise distinct
DistinctKeys(keys) == \A i, j \in 1..Len(keys) : keys[i] = keys[j] => i = j

\* strictly ascending byte-lexicographic order
Ascending(keys) == \A i \in 1..(Len(keys) - 1) : StrLess(keys[i], keys[i + 1])

Keys(coins) == [i \in 1..Len(coins) |-> coins[i][1]]

EntrySet(coins) == {coins[i] : i \in 1..Len(coins)}

\* the tokens of a compact string and what each parses to
Tokens(s) == split(s)

TokenResults(s) == [i \in 1..Len(Tokens(s)) |-> parse_coin_str(Tokens(s)[i])]

AllTokensOk(s) == \A i \in 1..Len(Tokens(s)) : TokenResults(s)[i].tag = "Ok"

TokenDenoms(s) == [i \in 1..Len(Tokens(s)) |-> TokenResults(s)[i].val[1]]

\* the Coin list a well-formed compact string stands for
TokenCoins(s) ==
    [i \in 1..Len(Tokens(s)) |->
        [denom |-> TokenResults(s)[i].val[1], amount |-> TokenResults(s)[i].val[2]]]

IsDuplicateErr(r) == r.tag = "Err" /\ r.err.msg \in {"duplicate denoms", "duplicate denom"}

IsInvalidAmountErr(r) ==
    r.tag = "Err" /\ r.err.kind = "GenericErr"
        /\ r.err.msg \in { "Parsing u128: cannot parse integer from empty string",
                           "Parsing u128: invalid digit found in string",
                           "Parsing u128: number too large to fit in target type" }

\* C1: parsing a compact string whose tokens are all well formed and in which
\* two tokens carry the same denomination fails with a duplicate-denomination
\* error and returns no collection.
C1_DuplicateTokensRejected ==
    (pc = "from_str" /\ AllTokensOk(input.s) /\ ~DistinctKeys(TokenDenoms(input.s)))
        => IsDuplicateErr(res)

\* C2: parse_coin_str and Coins::from_str return Ok or Err for every input
\* string; they never panic on the index that splits amount and denomination.
C2_NeverPanics ==
    pc \in {"parse_coin_str", "from_str"} => res.tag \in {"Ok", "Err"}

\* C3 (as stated): for every Coins value with at least one denomination,
\* whatever its denomination strings, parsing its compact string rendering
\* succeeds and gives the same value back.
C3_RoundTripAnyDenom ==
    (out.op = "fmt" /\ back # NoRes /\ Len(res.val) >= 1) => back = Ok(res.val)

\* a denomination the compact string format can carry: its first char is
\* alphabetic and it contains no comma
ParseableDenom(d) ==
    /\ d # <<>>
    /\ is_alphabetic(chars(d)[1])
    /\ \A j \in 1..Len(d) : d[j] # Comma

\* C3 (amended): for every Coins value with at least one denomination in
\* which every denomination starts with an alphabetic character and contains
\* no comma, parsing its compact string rendering succeeds and gives the same
\* value back.
C3_RoundTripParseableDenoms ==
    ( /\ out.op = "fmt" /\ back # NoRes /\ Len(res.val) >= 1
      /\ \A i \in 1..Len(res.val) : ParseableDenom(res.val[i][1]) )
        => back = Ok(res.val)

C3_Witness ==
    /\ pc = "try_from_vec" /\ out.op = "fmt" /\ Len(res.val) >= 2
    /\ \A i \in 1..Len(res.val) : ParseableDenom(res.val[i][1])
    /\ \E i \in 1..Len(res.val) : Len(chars(res.val[i][1])) < Len(res.val[i][1])
    /\ back = Ok(res.val)

\* C4: construction from a list of N Coins (by value or from a slice)
\* succeeds iff the N denominations are pairwise distinct; on success the
\* collection holds exactly the N (denomination, amount) pairs, on failure the
\* result is the parse error "duplicate denoms" and no collection.
C4_TryFromIffDistinct ==
    pc \in {"try_from_vec", "try_from_slice"} =>
        LET vec == input.vec
            distinct == DistinctKeys([i \in 1..Len(vec) |-> vec[i].denom])
        IN  /\ distinct <=> res.tag = "Ok"
            /\ res.tag = "Ok" =>
                 /\ len(res.val) = Len(vec)
                 /\ EntrySet(res.val) = {<<vec[i].denom, vec[i].amount>> : i \in 1..Len(vec)}
            /\ ~distinct =>
                 res = Err(parse_err("cw_coins::Coins", "duplicate denoms", <<>>))

C4_Witness ==
    /\ pc = "try_from_slice" /\ Len(input.vec) = 3
    /\ input.vec[1].denom = input.vec[3].denom
    /\ input.vec[1].amount # input.vec[3].amount
    /\ res.tag = "Err"

\* C5: decoding a document fails with the duplicate-denomination error naming
\* the key at the first entry whose key was seen earlier in the document,
\* provided the entries before it have valid amounts, whatever the amount
\* string of the repeated entry and whatever follows it.
C5_FirstRepeatedKeyFails ==
    pc = "deserialize" =>
        \A j \in 1..Len(input.doc) :
            ( /\ \E i \in 1..(j - 1) : input.doc[i][1] = input.doc[j][1]
              /\ DistinctKeys([i \in 1..(j - 1) |-> input.doc[i][1]])
              /\ \A i \in 1..(j - 1) : Uint128_from_str(input.doc[i][2]).tag = "Ok" )
                => res = Err(custom("duplicate denom", input.doc[j][1]))

C5_Witness ==
    /\ pc = "deserialize" /\ Len(input.doc) = 3
    /\ input.doc[2][1] = input.doc[1][1]
    /\ Uint128_from_str(input.doc[1][2]).tag = "Ok"
    /\ Uint128_from_str(input.doc[2][2]).tag = "Err"
    /\ Uint128_from_str(input.doc[3][2]).tag = "Err"
    /\ res = Err(custom("duplicate denom", input.doc[2][1]))

\* the text of a token before its first alphabetic char
AmountText(s) ==
    LET cs == chars(s)
        first == Min({j \in 1..Len(cs) : is_alphabetic(cs[j])})
    IN  Str(SubSeq(cs, 1, first - 1))

HasAlphabetic(s) == \E j \in 1..Len(chars(s)) : is_alphabetic(chars(s)[j])

\* C6: a token without an alphabetic char fails with the invalid-coin-format
\* error carrying the token; a token with one, whose text before it is empty,
\* non-numeric or out of range, fails with an invalid-amount error; from_str
\* fails whenever one of its tokens fails.
C6_TokenErrorKinds ==
    /\ pc = "parse_coin_str" =>
         /\ ~HasAlphabetic(input.s) =>
              res = Err(parse_err("cosmwasm_std::coins::Coin", "Invalid coin string", input.s))
         /\ (HasAlphabetic(input.s) /\ Uint128_from_str(AmountText(input.s)).tag # "Ok")
              => IsInvalidAmountErr(res)
    /\ (pc = "from_str"
          /\ \E i \in 1..Len(Tokens(input.s)) : TokenResults(input.s)[i].tag # "Ok")
         => res.tag = "Err"

\* C7: every output of a Coins value (compact string, document, to_vec,
\* into_vec) lists each denomination exactly once, in strictly ascending
\* byte-lexicographic order, however the value was constructed.
C7_CanonicalOrder ==
    /\ out.op \in {"to_vec", "into_vec"} =>
         /\ Ascending([i \in 1..Len(out.vec) |-> out.vec[i].denom])
         /\ {<<out.vec[i].denom, out.vec[i].amount>> : i \in 1..Len(out.vec)}
                = EntrySet(res.val)
    /\ out.op = "serialize" =>
         /\ Ascending([i \in 1..Len(out.doc) |-> out.doc[i][1]])
         /\ {out.doc[i][1] : i \in 1..Len(out.doc)} = {e[1] : e \in EntrySet(res.val)}
    /\ out.op = "fmt" =>
         \E q \in [1..Cardinality(EntrySet(res.val)) -> EntrySet(res.val)] :
            /\ Ascending(Keys(q))
            /\ out.s = join([i \in 1..Len(q) |-> Uint128_to_string(q[i][2]) \o q[i][1]])

C7_Witness ==
    /\ pc = "try_from_vec" /\ Len(input.vec) = 3
    /\ StrLess(input.vec[3].denom, input.vec[2].denom)
    /\ StrLess(input.vec[2].denom, input.vec[1].denom)
    /\ out.op = "fmt"

\* the document and the Coin list that carry the pairs of a collection input
DocOfVec(vec) == [i \in 1..Len(vec) |-> <<vec[i].denom, Uint128_to_string(vec[i].amount)>>]

VecOfDoc(doc) ==
    [i \in 1..Len(doc) |-> [denom |-> doc[i][1], amount |-> Uint128_from_str(doc[i][2]).val]]

C9_DocRoundTrip ==
    (out.op = "serialize" /\ back # NoRes) =>
        /\ back = Ok(res.val)
        /\ \A i \in 1..Len(out.doc) :
              /\ out.doc[i][2] # <<>>
              /\ \A j \in 1..Len(out.doc[i][2]) : is_digit(out.doc[i][2][j])
              /\ Uint128_from_str(out.doc[i][2]) = Ok(res.val[i][2])

C9_Witness ==
    /\ out.op = "serialize" /\ Len(res.val) >= 2
    /\ \E i \in 1..Len(res.val) : Len(res.val[i][2]) >= 2
    /\ back = Ok(res.val)

\* the longest leading run of decimal digits of a token
DigitRunLen(s) ==
    IF \A j \in 1..Len(s) : is_digit(s[j]) THEN Len(s)
    ELSE Min({j \in 1..Len(s) : ~is_digit(s[j])}) - 1

\* C10: parse_coin_str takes the longest leading run of decimal digits as the
\* amount and the whole remainder as the denomination, and succeeds whenever
\* the run is a non-empty in-range number and the remainder is non-empty.
C10_SplitAfterDigits ==
    pc = "parse_coin_str" =>
        LET k == DigitRunLen(input.s)
            run == SubSeq(input.s, 1, k)
            rest == SubSeq(input.s, k + 1, Len(input.s))
        IN  (k > 0 /\ ParseDigits(run, <<0>>).tag = "Ok" /\ rest # <<>>)
                => res = Ok(<<rest, ParseDigits(run, <<0>>).val>>)

====
